---------------------------- MODULE Spec2Model ----------------------------
(***************************************************************************)
(* A model of pysort.py: the bubble, insertion, quick, merge, heap and     *)
(* bogo sorts and their helpers.                                           *)
(*                                                                         *)
(* An element is a pair <<key, tag>>.  The program's comparisons (<, <=,   *)
(* >, ==) read the key only; the tag is the element's index in the         *)
(* caller's input, so that equal keys stay distinguishable (stability,     *)
(* permutation).  Indices are 0-based as in the source: the element at     *)
(* index i of a list s is s[i+1].                                          *)
(*                                                                         *)
(* An in-place function works on a record m = [s, oob]: s is the list and  *)
(* oob records that some index outside 0..len(s)-1 was read or written.    *)
(***************************************************************************)
EXTENDS Integers, Sequences, FiniteSets, TLC

\* Bounds of the model.
MaxLen == 4
MaxKey == 3
MaxBogoLen == 3
MaxRandomLen == 3

VARIABLES
    alg,         \* the function that was called ("none" before the call)
    pc,          \* "ready", "running", "done" or "overflow"
    input,       \* the caller's list as it was before the call
    sequence,    \* the caller's list object
    oob,         \* an index outside 0..len-1 has been accessed
    ret,         \* the value returned (<<>> for None)
    args,        \* <<left, right>> of the top-level call (range functions)
    stack,       \* pending calls <<low, high>> of an in-place quicksort
    work,        \* pending calls and results of quick_random / quick_median
    last,        \* the last partition_repeat: the range, the pivot index,
                 \* the bounds returned, the list before it, the calls made
    swap_point,  \* bubble_final_position's swap_point
    end,         \* heap_sort's loop variable after the last iteration
    shuffles,    \* whether bogo has shuffled
    cmps         \* comparisons made by a direct call of median_of_three

vars == <<alg, pc, input, sequence, oob, ret, args, stack, work, last,
          swap_point, end, shuffles, cmps>>

-----------------------------------------------------------------------------
\* Elements and their comparisons.

Key(e) == e[1]
Tag(e) == e[2]
Lt(a, b) == Key(a) < Key(b)
Gt(a, b) == Key(a) > Key(b)
Le(a, b) == Key(a) <= Key(b)
Eq(a, b) == Key(a) = Key(b)

Keys == 1..MaxKey
KeySeqs == UNION {[1..n -> Keys] : n \in 0..MaxLen}
Tagged(ks) == [i \in 1..Len(ks) |-> <<ks[i], i>>]
Inputs == {Tagged(ks) : ks \in KeySeqs}

Range(s) == {s[i] : i \in 1..Len(s)}
At(s, i) == s[i+1]
NoElem == <<0, 0>>

\* List accesses of an in-place function.  Touch records the indices a
\* statement reads; Rd is the element read; Wr and Swap write.
Valid(m, i) == i \in 0..(Len(m.s) - 1)
TouchAt(m, idx) ==
    IF \A i \in idx : Valid(m, i) THEN m ELSE [m EXCEPT !.oob = TRUE]
RdAt(m, i) == IF Valid(m, i) THEN At(m.s, i) ELSE NoElem
WrAt(m, i, e) ==
    IF Valid(m, i) THEN [m EXCEPT !.s[i+1] = e] ELSE [m EXCEPT !.oob = TRUE]
SwapAt(m, i, j) ==
    IF Valid(m, i) /\ Valid(m, j)
    THEN [m EXCEPT !.s = [@ EXCEPT ![i+1] = At(m.s, j), ![j+1] = At(m.s, i)]]
    ELSE [m EXCEPT !.oob = TRUE]

\* The same accesses, applied to the values of their arguments (each
\* argument is evaluated once).
Touch(m, idx) == CHOOSE r \in {TouchAt(a[1], a[2]) : a \in {<<m, idx>>}} : TRUE
Rd(m, i) == CHOOSE r \in {RdAt(a[1], a[2]) : a \in {<<m, i>>}} : TRUE
Wr(m, i, e) == CHOOSE r \in {WrAt(a[1], a[2], a[3]) : a \in {<<m, i, e>>}} : TRUE
Swap(m, i, j) == CHOOSE r \in {SwapAt(a[1], a[2], a[3]) : a \in {<<m, i, j>>}} : TRUE
Mem(s) == [s |-> s, oob |-> FALSE]

-----------------------------------------------------------------------------
\* Bubble sorts.

\* if sequence[i] > sequence[i+1]: swap them
BubbleCompare(m, i) ==
    IF Gt(Rd(m, i), Rd(m, i+1)) THEN Swap(Touch(m, {i, i+1}), i, i+1)
    ELSE Touch(m, {i, i+1})

\* for i in range(stop): compare and swap
RECURSIVE BubblePass(_, _, _)
BubblePass(m, i, stop) ==
    IF i >= stop THEN m ELSE BubblePass(BubbleCompare(m, i), i+1, stop)

RECURSIVE BubbleNaiveOuter(_, _, _)
BubbleNaiveOuter(m, k, length) ==
    IF k >= length THEN m
    ELSE BubbleNaiveOuter(BubblePass(m, 0, length), k+1, length)

bubble_naive(m) == BubbleNaiveOuter(m, 0, Len(m.s) - 1)

\* for passes in range(len(sequence)-1, 0, -1)
RECURSIVE BubbleOptimizedOuter(_, _)
BubbleOptimizedOuter(m, passes) ==
    IF passes <= 0 THEN m
    ELSE BubbleOptimizedOuter(BubblePass(m, 0, passes), passes - 1)

bubble_optimized(m) == BubbleOptimizedOuter(m, Len(m.s) - 1)

\* The inner loop of bubble_optimized_with_flag: <<m, changed>>.
RECURSIVE BubblePassFlag(_, _, _, _)
BubblePassFlag(m, i, stop, changed) ==
    IF i >= stop THEN <<m, changed>>
    ELSE BubblePassFlag(BubbleCompare(m, i), i+1, stop,
                        changed \/ Gt(Rd(m, i), Rd(m, i+1)))

RECURSIVE BubbleFlagOuter(_, _)
BubbleFlagOuter(m, passes) ==
    IF passes <= 0 THEN m
    ELSE LET r == BubblePassFlag(m, 0, passes, FALSE)
         IN  IF ~r[2] THEN r[1] ELSE BubbleFlagOuter(r[1], passes - 1)

bubble_optimized_with_flag(m) == BubbleFlagOuter(m, Len(m.s) - 1)

\* One pass of bubble_final_position's while loop: <<m, new_swap>>.
RECURSIVE FinalPositionPass(_, _, _, _)
FinalPositionPass(m, i, stop, new_swap) ==
    IF i >= stop THEN <<m, new_swap>>
    ELSE IF Gt(Rd(m, i-1), Rd(m, i))
         THEN FinalPositionPass(Swap(Touch(m, {i-1, i}), i-1, i), i+1, stop, i)
         ELSE FinalPositionPass(Touch(m, {i-1, i}), i+1, stop, new_swap)

-----------------------------------------------------------------------------
\* Insertion sorts.

\* Mutant: <= in place of <.
RECURSIVE InsertionWhileLe(_, _)
InsertionWhileLe(m, i) ==
    IF i > 0 /\ Le(Rd(m, i), Rd(m, i-1))
    THEN InsertionWhileLe(Swap(Touch(m, {i, i-1}), i, i-1), i - 1)
    ELSE IF i > 0 THEN Touch(m, {i, i-1}) ELSE m

\* while i>0 and sequence[i]<sequence[i-1]: swap; i -= 1
RECURSIVE InsertionWhile(_, _)
InsertionWhile(m, i) ==
    IF i > 0 /\ Lt(Rd(m, i), Rd(m, i-1))
    THEN InsertionWhile(Swap(Touch(m, {i, i-1}), i, i-1), i - 1)
    ELSE IF i > 0 THEN Touch(m, {i, i-1}) ELSE m

RECURSIVE InsertionFor(_, _)
InsertionFor(m, i) ==
    IF i >= Len(m.s) THEN m ELSE InsertionFor(InsertionWhile(m, i), i + 1)

insertion(m) == InsertionFor(m, 1)

\* while i>0 and val<sequence[i-1]: sequence[i] = sequence[i-1]; i -= 1
\* then sequence[i] = val
RECURSIVE InsertionOptimizedWhile(_, _, _)
InsertionOptimizedWhile(m, i, val) ==
    IF i > 0 /\ Lt(val, Rd(m, i-1))
    THEN InsertionOptimizedWhile(Wr(Touch(m, {i-1}), i, Rd(m, i-1)), i - 1, val)
    ELSE Wr(IF i > 0 THEN Touch(m, {i-1}) ELSE m, i, val)

\* for i,val in enumerate(sequence)
RECURSIVE InsertionOptimizedFor(_, _)
InsertionOptimizedFor(m, i) ==
    IF i >= Len(m.s) THEN m
    ELSE InsertionOptimizedFor(InsertionOptimizedWhile(m, i, Rd(m, i)), i + 1)

insertion_optimized(m) == InsertionOptimizedFor(m, 0)

\* for j in range(i,-1,-1): shift or break; the result is <<m, j>> with j
\* the loop variable when the loop ends.
RECURSIVE InsertionAltInner(_, _, _)
InsertionAltInner(m, j, val) ==
    IF j > 0 /\ Lt(val, Rd(m, j-1))
    THEN LET m2 == Wr(Touch(m, {j-1}), j, Rd(m, j-1))
         IN  IF j - 1 >= 0 THEN InsertionAltInner(m2, j - 1, val) ELSE <<m2, j>>
    ELSE <<IF j > 0 THEN Touch(m, {j-1}) ELSE m, j>>

RECURSIVE InsertionAltFor(_, _)
InsertionAltFor(m, i) ==
    IF i >= Len(m.s) THEN m
    ELSE LET r == InsertionAltInner(m, i, Rd(m, i))
         IN  InsertionAltFor(Wr(r[1], r[2], Rd(m, i)), i + 1)

insertion_optimized_alt(m) == InsertionAltFor(m, 0)

-----------------------------------------------------------------------------
\* Quicksort helpers.

\* Mutant: the last return gives right instead of mid.
median_of_three_last_right(m, left, right) ==
    LET mid == (left + right) \div 2
        a == Rd(m, left)
        b == Rd(m, mid)
        c == Rd(m, right)
        r == IF Gt(a, b)
             THEN IF Gt(b, c) THEN <<mid, 2>>
                  ELSE IF Gt(a, c) THEN <<right, 3>>
                  ELSE <<left, 3>>
             ELSE IF Gt(a, c) THEN <<left, 2>>
             ELSE IF Gt(b, c) THEN <<right, 3>>
             ELSE <<right, 3>>
    IN  [ret |-> r[1], cmps |-> r[2], m |-> Touch(m, {left, mid, right})]

\* Mutant: left and right exchanged in the branch sequence[left] >
\* sequence[mid] >= ... .
median_of_three_swapped(m, left, right) ==
    LET mid == (left + right) \div 2
        a == Rd(m, left)
        b == Rd(m, mid)
        c == Rd(m, right)
        r == IF Gt(a, b)
             THEN IF Gt(b, c) THEN <<mid, 2>>
                  ELSE IF Gt(a, c) THEN <<left, 3>>
                  ELSE <<right, 3>>
             ELSE IF Gt(a, c) THEN <<left, 2>>
             ELSE IF Gt(b, c) THEN <<right, 3>>
             ELSE <<mid, 3>>
    IN  [ret |-> r[1], cmps |-> r[2], m |-> Touch(m, {left, mid, right})]

\* The index of the median of sequence[left], sequence[mid], sequence[right];
\* cmps counts the comparisons made on the way.
median_of_three(m, left, right) ==
    LET mid == (left + right) \div 2
        a == Rd(m, left)
        b == Rd(m, mid)
        c == Rd(m, right)
        r == IF Gt(a, b)
             THEN IF Gt(b, c) THEN <<mid, 2>>
                  ELSE IF Gt(a, c) THEN <<right, 3>>
                  ELSE <<left, 3>>
             ELSE IF Gt(a, c) THEN <<left, 2>>
             ELSE IF Gt(b, c) THEN <<right, 3>>
             ELSE <<mid, 3>>
    IN  [ret |-> r[1], cmps |-> r[2], m |-> Touch(m, {left, mid, right})]

\* for i in range(left,right): if sequence[i] <= pivot: swap(i, index); index += 1
RECURSIVE PartitionLoop(_, _, _, _, _)
PartitionLoop(m, i, right, index, pivot) ==
    IF i >= right THEN <<m, index>>
    ELSE IF Le(Rd(m, i), pivot)
         THEN PartitionLoop(Swap(m, i, index), i + 1, right, index + 1, pivot)
         ELSE PartitionLoop(Touch(m, {i}), i + 1, right, index, pivot)

partition(m, left, right, pivot_ind) ==
    LET pivot == Rd(m, pivot_ind)
        m1 == Swap(m, pivot_ind, right)
        r == PartitionLoop(m1, left, right, left, pivot)
    IN  [ret |-> r[2], m |-> Swap(r[1], r[2], right)]

\* for i in range(from, right+1): if sequence[i] < pivot: swap(i, index); index += 1
RECURSIVE PartitionRepeatLess(_, _, _, _, _)
PartitionRepeatLess(m, i, right, index, pivot) ==
    IF i > right THEN <<m, index>>
    ELSE IF Lt(Rd(m, i), pivot)
         THEN PartitionRepeatLess(Swap(m, i, index), i + 1, right, index + 1, pivot)
         ELSE PartitionRepeatLess(Touch(m, {i}), i + 1, right, index, pivot)

\* for i in range(left, right+1): if sequence[i] == pivot: swap(i, index); index += 1
RECURSIVE PartitionRepeatEqual(_, _, _, _, _)
PartitionRepeatEqual(m, i, right, index, pivot) ==
    IF i > right THEN <<m, index>>
    ELSE IF Eq(Rd(m, i), pivot)
         THEN PartitionRepeatEqual(Swap(m, i, index), i + 1, right, index + 1, pivot)
         ELSE PartitionRepeatEqual(Touch(m, {i}), i + 1, right, index, pivot)

\* Mutant: left is not moved to index between the two loops.
partition_repeat_left_kept(m, left, right, pivot_ind) ==
    LET pivot == Rd(m, pivot_ind)
        r1 == PartitionRepeatLess(Touch(m, {pivot_ind}), left, right, left, pivot)
        r2 == PartitionRepeatEqual(r1[1], left, right, r1[2], pivot)
    IN  [ret |-> <<left, r2[2]>>, m |-> r2[1]]

\* ret is the pair (left, index) the function returns.
partition_repeat(m, left, right, pivot_ind) ==
    LET pivot == Rd(m, pivot_ind)
        r1 == PartitionRepeatLess(Touch(m, {pivot_ind}), left, right, left, pivot)
        r2 == PartitionRepeatEqual(r1[1], r1[2], right, r1[2], pivot)
    IN  [ret |-> <<r1[2], r2[2]>>, m |-> r2[1]]

\* sequence.pop(i): the list without its element at index i.
Pop(s, i) == [k \in 1..(Len(s) - 1) |-> IF k <= i THEN s[k] ELSE s[k+1]]

\* The items of s that are > pivot (above) and the others (below), in order.
Above(s, pivot) == SelectSeq(s, LAMBDA item : Gt(item, pivot))
\* Mutant: the items equal to the pivot are dropped.
BelowStrict(s, pivot) == SelectSeq(s, LAMBDA item : Lt(item, pivot))
Below(s, pivot) == SelectSeq(s, LAMBDA item : ~Gt(item, pivot))

-----------------------------------------------------------------------------
\* Merge sort.

RECURSIVE MergeLoop(_, _, _, _, _)
MergeLoop(left, right, left_index, right_index, new) ==
    IF left_index < Len(left) /\ right_index < Len(right)
    THEN IF Le(At(left, left_index), At(right, right_index))
         THEN MergeLoop(left, right, left_index + 1, right_index,
                        Append(new, At(left, left_index)))
         ELSE MergeLoop(left, right, left_index, right_index + 1,
                        Append(new, At(right, right_index)))
    ELSE new \o SubSeq(left, left_index + 1, Len(left))
             \o SubSeq(right, right_index + 1, Len(right))

merge(left, right) == MergeLoop(left, right, 0, 0, <<>>)

RECURSIVE merge_sort(_)
merge_sort(s) ==
    LET length == Len(s)
        middle == length \div 2
    IN  IF length < 2 THEN s
        ELSE merge(merge_sort(SubSeq(s, 1, middle)),
                   merge_sort(SubSeq(s, middle + 1, length)))

-----------------------------------------------------------------------------
\* Heap sort.

RECURSIVE SiftDownLoop(_, _, _)
SiftDownLoop(m, root, last_index) ==
    IF root * 2 + 1 <= last_index
    THEN LET child == root * 2 + 1
             swap1 == IF Lt(Rd(m, root), Rd(m, child)) THEN child ELSE root
             right_in == child + 1 <= last_index
             swap2 == IF right_in /\ Lt(Rd(m, swap1), Rd(m, child + 1))
                      THEN child + 1 ELSE swap1
             m1 == Touch(m, {root, child} \cup (IF right_in THEN {child + 1} ELSE {}))
         IN  IF swap2 # root THEN SiftDownLoop(Swap(m1, root, swap2), swap2, last_index)
             ELSE m1
    ELSE m

sift_down(m, start, last_index) == SiftDownLoop(m, start, last_index)

\* for start in range(first, -1, -1): sift_down(sequence, start, highest_index)
RECURSIVE HeapifyLoop(_, _, _)
HeapifyLoop(m, start, highest_index) ==
    IF start < 0 THEN m
    ELSE HeapifyLoop(sift_down(m, start, highest_index), start - 1, highest_index)

\* Mutant: the bottom-up pass starts one parent too high.
heapifySkipsLastParent(m, highest_index) ==
    HeapifyLoop(m, (highest_index - 1) \div 2 - 1, highest_index)

heapify(m, highest_index) ==
    HeapifyLoop(m, (highest_index - 1) \div 2, highest_index)

-----------------------------------------------------------------------------
\* Bogo sort.

\* any(sequence[i]>sequence[i+1] for i in range(len(sequence)-1))
OutOfOrder(s) == \E i \in 0..(Len(s) - 2) : Gt(At(s, i), At(s, i+1))

\* The orders random.shuffle can leave the list in.
Shuffles(s) ==
    {p \in [1..Len(s) -> Range(s)] : \A e \in Range(s) : \E i \in 1..Len(s) : p[i] = e}

-----------------------------------------------------------------------------
\* The caller: one call of one function on one list.

NoStep == [low |-> 0, high |-> -1, pivot_ind |-> 0, left |-> 0, right |-> 0,
           before |-> <<>>, calls |-> <<>>]

Init ==
    /\ alg = "none"
    /\ pc = "ready"
    /\ input \in Inputs
    /\ sequence = input
    /\ oob = FALSE
    /\ ret = <<>>
    /\ args = <<0, -1>>
    /\ stack = <<>>
    /\ work = <<>>
    /\ last = NoStep
    /\ swap_point = 0
    /\ end = 0
    /\ shuffles = FALSE
    /\ cmps = 0

\* A function that sorts the caller's list in one go and returns None.
CallInPlace(name, m) ==
    /\ pc = "ready"
    /\ alg' = name
    /\ sequence' = m.s
    /\ oob' = m.oob
    /\ pc' = "done"
    /\ UNCHANGED <<input, ret, args, stack, work, last, swap_point, end,
                   shuffles, cmps>>

Call_bubble_naive == CallInPlace("bubble_naive", bubble_naive(Mem(sequence)))
Call_bubble_optimized ==
    CallInPlace("bubble_optimized", bubble_optimized(Mem(sequence)))
Call_bubble_optimized_with_flag ==
    CallInPlace("bubble_optimized_with_flag",
                bubble_optimized_with_flag(Mem(sequence)))
Call_insertion == CallInPlace("insertion", insertion(Mem(sequence)))
Call_insertion_optimized ==
    CallInPlace("insertion_optimized", insertion_optimized(Mem(sequence)))
Call_insertion_optimized_alt ==
    CallInPlace("insertion_optimized_alt", insertion_optimized_alt(Mem(sequence)))

\* bubble_final_position: swap_point = len(sequence), then one pass of the
\* while loop per step.
Call_bubble_final_position ==
    /\ pc = "ready"
    /\ alg' = "bubble_final_position"
    /\ pc' = "running"
    /\ swap_point' = Len(sequence)
    /\ UNCHANGED <<input, sequence, oob, ret, args, stack, work, last, end,
                   shuffles, cmps>>

Step_bubble_final_position ==
    /\ pc = "running" /\ alg = "bubble_final_position"
    /\ swap_point # 0
    /\ \E r \in {FinalPositionPass([s |-> sequence, oob |-> oob], 1,
                                   swap_point, 0)} :
           /\ sequence' = r[1].s
           /\ oob' = r[1].oob
           /\ swap_point' = r[2]
    /\ UNCHANGED <<alg, pc, input, ret, args, stack, work, last, end,
                   shuffles, cmps>>

Return_bubble_final_position ==
    /\ pc = "running" /\ alg = "bubble_final_position"
    /\ swap_point = 0
    /\ pc' = "done"
    /\ UNCHANGED <<alg, input, sequence, oob, ret, args, stack, work, last,
                   swap_point, end, shuffles, cmps>>

\* merge_sort works on slices and returns a new list.
Call_merge_sort ==
    /\ pc = "ready"
    /\ alg' = "merge_sort"
    /\ ret' = merge_sort(sequence)
    /\ pc' = "done"
    /\ UNCHANGED <<input, sequence, oob, args, stack, work, last, swap_point,
                   end, shuffles, cmps>>

-----------------------------------------------------------------------------
\* In-place quicksorts.  The recursion is a stack of pending calls
\* <<low, high>>, the call being executed first.

\* The values random.randint(a, b) and random.randrange(n) can return.
RandInt(a, b) == a..b
RandRange(n) == 0..(n - 1)

\* The bounds a caller can pass: the default (0, len-1) or any
\* 0 <= left <= right <= len-1.
Bounds(s) ==
    {<<0, Len(s) - 1>>}
        \cup {b \in (0..(Len(s) - 1)) \X (0..(Len(s) - 1)) : b[1] <= b[2]}

\* The interpreter's recursion limit, scaled to the lists of the model: a
\* call that would nest deeper raises RecursionError ("overflow").
RecursionLimit == 2 * MaxLen + 2

\* The pending calls once the running call has made the calls cs.
Recurse(cs) ==
    /\ stack' = cs \o Tail(stack)
    /\ pc' = IF Len(cs \o Tail(stack)) > RecursionLimit THEN "overflow" ELSE pc

\* The running call returns without recursing.
Unwind ==
    /\ stack' = Tail(stack)
    /\ UNCHANGED <<pc, sequence, oob, last>>

\* The two recursive calls of quick_inplace_random and quick_inplace_median.
\* Mutant: the left call starts at index 0 instead of left.
PartitionCallsFromZero(left, right, pivot_new_ind) ==
    << <<0, pivot_new_ind - 1>>, <<pivot_new_ind + 1, right>> >>

PartitionCalls(left, right, pivot_new_ind) ==
    << <<left, pivot_new_ind - 1>>, <<pivot_new_ind + 1, right>> >>

\* The two recursive calls of quick_inplace_repeat.
RepeatCalls(low, high, left, right) == << <<low, left>>, <<right, high>> >>

CallQuickInplace(name) ==
    /\ pc = "ready"
    /\ alg' = name
    /\ pc' = "running"
    /\ \E b \in Bounds(sequence) :
          /\ args' = b
          /\ stack' = <<b>>
    /\ UNCHANGED <<input, sequence, oob, ret, work, last, swap_point, end,
                   shuffles, cmps>>

Call_quick_inplace_random ==
    /\ Len(sequence) <= MaxRandomLen
    /\ CallQuickInplace("quick_inplace_random")
Call_quick_inplace_median == CallQuickInplace("quick_inplace_median")
Call_quick_inplace_repeat == CallQuickInplace("quick_inplace_repeat")

\* One call of quick_inplace_random / quick_inplace_median on the list m
\* with the pivot index chosen.
PartitionStep(m, left, right, pivot_ind) ==
    \E r \in {partition(m, left, right, pivot_ind)} :
        /\ sequence' = r.m.s
        /\ oob' = r.m.oob
        /\ Recurse(PartitionCalls(left, right, r.ret))
        /\ UNCHANGED last

Step_quick_inplace_random ==
    /\ pc = "running" /\ alg = "quick_inplace_random"
    /\ stack # <<>>
    /\ LET left == Head(stack)[1]
           right == Head(stack)[2]
       IN  IF left < right
           THEN \E pivot_ind \in RandInt(left, right) :
                    PartitionStep([s |-> sequence, oob |-> oob], left, right,
                                  pivot_ind)
           ELSE Unwind
    /\ UNCHANGED <<alg, input, ret, args, work, swap_point, end, shuffles,
                   cmps>>

Step_quick_inplace_median ==
    /\ pc = "running" /\ alg = "quick_inplace_median"
    /\ stack # <<>>
    /\ LET left == Head(stack)[1]
           right == Head(stack)[2]
       IN  IF left < right
           THEN \E med \in {median_of_three([s |-> sequence, oob |-> oob],
                                            left, right)} :
                    PartitionStep(med.m, left, right, med.ret)
           ELSE Unwind
    /\ UNCHANGED <<alg, input, ret, args, work, swap_point, end, shuffles,
                   cmps>>

Step_quick_inplace_repeat ==
    /\ pc = "running" /\ alg = "quick_inplace_repeat"
    /\ stack # <<>>
    /\ LET low == Head(stack)[1]
           high == Head(stack)[2]
       IN  IF low < high
           THEN \E med \in {median_of_three([s |-> sequence, oob |-> oob],
                                            low, high)} :
                \E r \in {partition_repeat(med.m, low, high, med.ret)} :
                    /\ sequence' = r.m.s
                    /\ oob' = r.m.oob
                    /\ Recurse(RepeatCalls(low, high, r.ret[1], r.ret[2]))
                    /\ last' = [low |-> low, high |-> high,
                                pivot_ind |-> med.ret,
                                left |-> r.ret[1], right |-> r.ret[2],
                                before |-> sequence,
                                calls |-> RepeatCalls(low, high, r.ret[1],
                                                      r.ret[2])]
           ELSE Unwind
    /\ UNCHANGED <<alg, input, ret, args, work, swap_point, end, shuffles,
                   cmps>>

Return_quick_inplace ==
    /\ pc = "running"
    /\ alg \in {"quick_inplace_random", "quick_inplace_median",
                "quick_inplace_repeat"}
    /\ stack = <<>>
    /\ pc' = "done"
    /\ UNCHANGED <<alg, input, sequence, oob, ret, args, stack, work, last,
                   swap_point, end, shuffles, cmps>>

-----------------------------------------------------------------------------
\* quick_random and quick_median.  The expression
\*     quick(below) + [pivot] + quick(above)
\* under evaluation is a list of segments: a pending call on a list (own
\* says whether that list is the caller's list object) or a computed value.
\* The leftmost pending call is evaluated first.

PendingCall(s, own) == [t |-> "call", v |-> s, own |-> own]
Value(s) == [t |-> "val", v |-> s, own |-> FALSE]

FirstCall(w) ==
    CHOOSE k \in 1..Len(w) : w[k].t = "call" /\ \A j \in 1..(k - 1) : w[j].t = "val"

RECURSIVE Concat(_)
Concat(w) == IF w = <<>> THEN <<>> ELSE Head(w).v \o Concat(Tail(w))

\* Mutant: the pivot is popped from a copy of the list.
QuickBodyOnCopy(s, pivot_index) ==
    LET pivot == At(s, pivot_index)
        rest == Pop(s, pivot_index)
    IN  [segs |-> <<PendingCall(Below(rest, pivot), FALSE), Value(<<pivot>>),
                    PendingCall(Above(rest, pivot), FALSE)>>,
         rest |-> s]

\* The body of quick_random / quick_median past the length test, with the
\* pivot index chosen: the segments that replace the call, and the list the
\* call was given after the pop.
QuickBody(s, pivot_index) ==
    LET pivot == At(s, pivot_index)
        rest == Pop(s, pivot_index)
    IN  [segs |-> <<PendingCall(Below(rest, pivot), FALSE), Value(<<pivot>>),
                    PendingCall(Above(rest, pivot), FALSE)>>,
         rest |-> rest]

CallQuick(name) ==
    /\ pc = "ready"
    /\ alg' = name
    /\ pc' = "running"
    /\ work' = <<PendingCall(sequence, TRUE)>>
    /\ UNCHANGED <<input, sequence, oob, ret, args, stack, last, swap_point,
                   end, shuffles, cmps>>

Call_quick_random ==
    /\ Len(sequence) <= MaxRandomLen
    /\ CallQuick("quick_random")
Call_quick_median == CallQuick("quick_median")

QuickStep(k, pivot_index) ==
    LET seg == work[k]
        b == QuickBody(seg.v, pivot_index)
    IN  /\ work' = SubSeq(work, 1, k - 1) \o b.segs \o SubSeq(work, k + 1, Len(work))
        /\ sequence' = IF seg.own THEN b.rest ELSE sequence

\* if length < 2: return sequence
QuickBase(k) ==
    /\ work' = [work EXCEPT ![k] = Value(work[k].v)]
    /\ UNCHANGED sequence

Step_quick_random ==
    /\ pc = "running" /\ alg = "quick_random"
    /\ \E j \in 1..Len(work) : work[j].t = "call"
    /\ LET k == FirstCall(work)
           length == Len(work[k].v)
       IN  IF length < 2 THEN QuickBase(k)
           ELSE \E pivot_index \in RandRange(length) : QuickStep(k, pivot_index)
    /\ UNCHANGED <<alg, pc, input, oob, ret, args, stack, last, swap_point,
                   end, shuffles, cmps>>

Step_quick_median ==
    /\ pc = "running" /\ alg = "quick_median"
    /\ \E j \in 1..Len(work) : work[j].t = "call"
    /\ LET k == FirstCall(work)
           length == Len(work[k].v)
           med == median_of_three(Mem(work[k].v), 0, length - 1)
       IN  IF length < 2 THEN QuickBase(k) /\ UNCHANGED oob
           ELSE QuickStep(k, med.ret) /\ oob' = (oob \/ med.m.oob)
    /\ UNCHANGED <<alg, pc, input, ret, args, stack, last, swap_point,
                   end, shuffles, cmps>>

Return_quick ==
    /\ pc = "running" /\ alg \in {"quick_random", "quick_median"}
    /\ \A j \in 1..Len(work) : work[j].t = "val"
    /\ ret' = Concat(work)
    /\ pc' = "done"
    /\ UNCHANGED <<alg, input, sequence, oob, args, stack, work, last,
                   swap_point, end, shuffles, cmps>>

-----------------------------------------------------------------------------
\* heap_sort: heapify, then one iteration of the extraction loop per step.
\* end is the loop variable of the next iteration.

Call_heap_sort ==
    /\ pc = "ready"
    /\ alg' = "heap_sort"
    /\ pc' = "running"
    /\ LET highest_index == Len(sequence) - 1
           m == heapify(Mem(sequence), highest_index)
       IN  /\ sequence' = m.s
           /\ oob' = m.oob
           /\ end' = highest_index
    /\ UNCHANGED <<input, ret, args, stack, work, last, swap_point, shuffles,
                   cmps>>

\* Mutant: the heap is not shrunk before the root is sifted down.
ExtractMaxNotShrunk(m, e) == sift_down(Swap(m, e, 0), 0, e)

\* sequence[end], sequence[0] = sequence[0], sequence[end]
\* sift_down(sequence, 0, end-1)
ExtractMax(m, e) == sift_down(Swap(m, e, 0), 0, e - 1)

Step_heap_sort ==
    /\ pc = "running" /\ alg = "heap_sort"
    /\ end > 0
    /\ \E m \in {ExtractMax([s |-> sequence, oob |-> oob], end)} :
           /\ sequence' = m.s
           /\ oob' = m.oob
    /\ end' = end - 1
    /\ UNCHANGED <<alg, pc, input, ret, args, stack, work, last, swap_point,
                   shuffles, cmps>>

Return_heap_sort ==
    /\ pc = "running" /\ alg = "heap_sort"
    /\ end <= 0
    /\ pc' = "done"
    /\ UNCHANGED <<alg, input, sequence, oob, ret, args, stack, work, last,
                   swap_point, end, shuffles, cmps>>

-----------------------------------------------------------------------------
\* bogo: one test of the while condition per step.

Call_bogo ==
    /\ pc = "ready"
    /\ Len(sequence) <= MaxBogoLen
    /\ alg' = "bogo"
    /\ pc' = "running"
    /\ UNCHANGED <<input, sequence, oob, ret, args, stack, work, last,
                   swap_point, end, shuffles, cmps>>

Step_bogo ==
    /\ pc = "running" /\ alg = "bogo"
    /\ OutOfOrder(sequence)
    /\ sequence' \in Shuffles(sequence)
    /\ shuffles' = TRUE
    /\ UNCHANGED <<alg, pc, input, oob, ret, args, stack, work, last,
                   swap_point, end, cmps>>

Return_bogo ==
    /\ pc = "running" /\ alg = "bogo"
    /\ ~OutOfOrder(sequence)
    /\ ret' = sequence
    /\ pc' = "done"
    /\ UNCHANGED <<alg, input, sequence, oob, args, stack, work, last,
                   swap_point, end, shuffles, cmps>>

-----------------------------------------------------------------------------
\* The helpers called on their own.

Call_median_of_three ==
    /\ pc = "ready"
    /\ alg' = "median_of_three"
    /\ pc' = "done"
    /\ \E b \in Bounds(sequence) :
          /\ b[1] <= b[2]
          /\ LET r == median_of_three(Mem(sequence), b[1], b[2])
             IN  /\ args' = b
                 /\ ret' = r.ret
                 /\ cmps' = r.cmps
                 /\ sequence' = r.m.s
                 /\ oob' = r.m.oob
    /\ UNCHANGED <<input, stack, work, last, swap_point, end, shuffles>>

Call_partition_repeat ==
    /\ pc = "ready"
    /\ alg' = "partition_repeat"
    /\ pc' = "done"
    /\ \E b \in Bounds(sequence) :
          /\ b[1] <= b[2]
          /\ \E pivot_ind \in b[1]..b[2] :
                LET r == partition_repeat(Mem(sequence), b[1], b[2], pivot_ind)
                IN  /\ args' = b
                    /\ ret' = r.ret
                    /\ sequence' = r.m.s
                    /\ oob' = r.m.oob
                    /\ last' = [low |-> b[1], high |-> b[2],
                                pivot_ind |-> pivot_ind, left |-> r.ret[1],
                                right |-> r.ret[2], before |-> sequence,
                                calls |-> <<>>]
    /\ UNCHANGED <<input, stack, work, swap_point, end, shuffles, cmps>>

-----------------------------------------------------------------------------

Next ==
    \/ Call_bubble_naive
    \/ Call_bubble_optimized
    \/ Call_bubble_optimized_with_flag
    \/ Call_bubble_final_position
    \/ Step_bubble_final_position
    \/ Return_bubble_final_position
    \/ Call_insertion
    \/ Call_insertion_optimized
    \/ Call_insertion_optimized_alt
    \/ Call_quick_random
    \/ Step_quick_random
    \/ Call_quick_median
    \/ Step_quick_median
    \/ Return_quick
    \/ Call_quick_inplace_random
    \/ Step_quick_inplace_random
    \/ Call_quick_inplace_median
    \/ Step_quick_inplace_median
    \/ Call_quick_inplace_repeat
    \/ Step_quick_inplace_repeat
    \/ Return_quick_inplace
    \/ Call_merge_sort
    \/ Call_heap_sort
    \/ Step_heap_sort
    \/ Return_heap_sort
    \/ Call_bogo
    \/ Step_bogo
    \/ Return_bogo
    \/ Call_median_of_three
    \/ Call_partition_repeat

Spec == Init /\ [][Next]_vars

\* A call in progress runs on: the interpreter always executes its next
\* statement.
Run ==
    \/ Step_bubble_final_position
    \/ Return_bubble_final_position
    \/ Step_quick_random
    \/ Step_quick_median
    \/ Return_quick
    \/ Step_quick_inplace_random
    \/ Step_quick_inplace_median
    \/ Step_quick_inplace_repeat
    \/ Return_quick_inplace
    \/ Step_heap_sort
    \/ Return_heap_sort
    \/ Step_bogo
    \/ Return_bogo

FairSpec == Spec /\ WF_vars(Run)

-----------------------------------------------------------------------------
\* Properties.

Sorted(s) == \A i \in 1..(Len(s) - 1) : Le(s[i], s[i+1])

\* b holds the elements of a, each once (the elements of an input are
\* pairwise distinct by their tags).
IsPerm(a, b) == Len(a) = Len(b) /\ Range(a) = Range(b)

\* Elements with equal keys are in the order of their tags.
Stable(s) ==
    \A i \in 1..Len(s) : \A j \in (i + 1)..Len(s) :
        Eq(s[i], s[j]) => Tag(s[i]) < Tag(s[j])

Slice(s, lo, hi) == SubSeq(s, lo + 1, hi + 1)

\* s and t agree at every index outside lo..hi.
SameOutside(s, t, lo, hi) ==
    /\ Len(s) = Len(t)
    /\ \A i \in 0..(Len(s) - 1) : (i < lo \/ i > hi) => At(s, i) = At(t, i)

InPlaceSorts ==
    {"bubble_naive", "bubble_optimized", "bubble_optimized_with_flag",
     "bubble_final_position", "insertion", "insertion_optimized",
     "insertion_optimized_alt", "quick_inplace_random", "quick_inplace_median",
     "quick_inplace_repeat", "heap_sort", "bogo"}
QuickInplace ==
    {"quick_inplace_random", "quick_inplace_median", "quick_inplace_repeat"}
FullRange == args = <<0, Len(input) - 1>>

\* C1: every in-place sort called on the full range leaves the caller's list
\* in non-decreasing order, with the same length and the same elements as
\* the input, and no index outside 0..len-1 is ever read or written.
C1_InPlaceSorted ==
    alg \in InPlaceSorts =>
        /\ ~oob
        /\ Len(sequence) = Len(input)
        /\ (pc = "done" /\ (alg \in QuickInplace => FullRange)) =>
               Sorted(sequence) /\ IsPerm(input, sequence)

C1_Witness ==
    /\ alg = "heap_sort" /\ pc = "done"
    /\ Len(input) = MaxLen
    /\ OutOfOrder(input)
    /\ \E i, j \in 1..Len(input) : i # j /\ Eq(input[i], input[j])

\* C2: quick_random, quick_median and merge_sort return a non-decreasing
\* list holding exactly the elements of the input; an input shorter than 2
\* is returned as it is.
C2_ReturnedSorted ==
    (alg \in {"quick_random", "quick_median", "merge_sort"} /\ pc = "done") =>
        /\ Sorted(ret)
        /\ IsPerm(input, ret)
        /\ Len(input) < 2 => ret = input

C2_Witness ==
    /\ alg = "quick_random" /\ pc = "done"
    /\ Len(input) = MaxRandomLen
    /\ OutOfOrder(input)
    /\ \E i, j \in 1..Len(input) : i # j /\ Eq(input[i], input[j])

\* C3: the insertion sorts and merge_sort are stable: elements with equal
\* keys end in the order they had in the input.
C3_Stable ==
    /\ (alg \in {"insertion", "insertion_optimized", "insertion_optimized_alt"}
          /\ pc = "done") => Stable(sequence) /\ IsPerm(input, sequence)
    /\ (alg = "merge_sort" /\ pc = "done") => Stable(ret) /\ IsPerm(input, ret)

C3_Witness ==
    /\ alg = "merge_sort" /\ pc = "done"
    /\ ret # input
    /\ \E i \in 1..Len(input) : \E j \in (i + 1)..Len(input) :
          /\ Eq(input[i], input[j])
          /\ \E k \in (i + 1)..(j - 1) : Lt(input[k], input[i])

\* C4: an in-place quicksort called with bounds left <= right sorts the
\* elements at left..right among themselves and changes nothing outside;
\* with left >= right the list is never modified.
C4_RangeSorted ==
    alg \in QuickInplace =>
        /\ args[1] >= args[2] => sequence = input
        /\ pc = "done" =>
              /\ Sorted(Slice(sequence, args[1], args[2]))
              /\ IsPerm(Slice(input, args[1], args[2]),
                        Slice(sequence, args[1], args[2]))
              /\ SameOutside(input, sequence, args[1], args[2])

C4_Witness ==
    /\ alg = "quick_inplace_repeat" /\ pc = "done"
    /\ 0 < args[1] /\ args[1] < args[2] /\ args[2] < Len(input) - 1
    /\ sequence # input
    /\ OutOfOrder(sequence)

\* The top-level call of quick_random / quick_median has not run yet.
TopLevelPending == work = <<PendingCall(input, TRUE)>>

\* C5: quick_random and quick_median leave the caller's list, when it has
\* n >= 2 elements, with the n-1 elements other than the top-level pivot in
\* their original order, and unchanged when n < 2; the recursive calls do
\* not touch it.
C5_InputConsumed ==
    (alg \in {"quick_random", "quick_median"} /\ ~TopLevelPending) =>
        /\ Len(input) < 2 => sequence = input
        /\ Len(input) >= 2 =>
              /\ Len(sequence) = Len(input) - 1
              /\ \E i \in 0..(Len(input) - 1) : sequence = Pop(input, i)
              /\ alg = "quick_median" =>
                    sequence = Pop(input, median_of_three(Mem(input), 0,
                                                          Len(input) - 1).ret)

C5_Witness ==
    /\ alg = "quick_median" /\ pc = "done"
    /\ Len(input) = MaxLen
    /\ OutOfOrder(input)
    /\ Len(sequence) = MaxLen - 1

\* bogo, out of order, can shuffle into a list that is out of order again.
BogoLoops ==
    (alg = "bogo" /\ pc = "running" /\ OutOfOrder(sequence)) =>
        ENABLED (Step_bogo /\ OutOfOrder(sequence'))

\* bogo never shuffles a list that was in order.
BogoNoShuffle ==
    (alg = "bogo" /\ ~OutOfOrder(input)) => (~shuffles /\ sequence = input)

\* C6: every sort other than bogo terminates, whatever pivots are drawn (in
\* particular quick_inplace_repeat, whose left call covers [low, left]);
\* bogo on a list that is out of order can shuffle it into a list that is
\* out of order again, without end, and on a list in order it returns
\* without shuffling.
C6_Termination ==
    /\ (pc = "running" /\ (alg = "bogo" => ~OutOfOrder(input))) ~> (pc = "done")
    /\ [](pc # "overflow")
    /\ []BogoLoops
    /\ []BogoNoShuffle

\* quick_inplace_repeat is about to run its left call on the very range it
\* has just partitioned.
C6_Witness ==
    /\ alg = "quick_inplace_repeat" /\ pc = "running"
    /\ last.before # <<>>
    /\ stack # <<>>
    /\ Head(stack) = <<last.low, last.high>>
    /\ last.low < last.high

\* s[m] is a median of the values at left, mid, right: the three indices
\* can be arranged so that m is in the middle and the values ascend.
IsMedianIndex(s, left, right, m) ==
    LET mid == (left + right) \div 2
        idx == <<left, mid, right>>
    IN  \E p \in {q \in [1..3 -> 1..3] : \A x \in 1..3 : \E y \in 1..3 : q[y] = x} :
            /\ idx[p[2]] = m
            /\ Le(At(s, idx[p[1]]), At(s, m))
            /\ Le(At(s, m), At(s, idx[p[3]]))

\* C7: median_of_three returns one of left, mid, right, whose value is the
\* median of the three values there (ties included), after at most three
\* comparisons and without changing the list; on [5,1,9] it returns 0.
C7_MedianOfThree ==
    (alg = "median_of_three" /\ pc = "done") =>
        /\ ret \in {args[1], (args[1] + args[2]) \div 2, args[2]}
        /\ IsMedianIndex(input, args[1], args[2], ret)
        /\ cmps <= 3
        /\ sequence = input
        /\ ~oob
        /\ median_of_three(Mem(Tagged(<<5, 1, 9>>)), 0, 2).ret = 0

C7_Witness ==
    /\ alg = "median_of_three" /\ pc = "done"
    /\ args = <<0, 2>>
    /\ Lt(At(input, 1), At(input, 0)) /\ Lt(At(input, 0), At(input, 2))
    /\ ret = 0

RangeOf(call) == call[1]..call[2]

\* C8: neither recursive call of quick_inplace_repeat is given a range that
\* contains an index of the equal-to-pivot region partition_repeat returned.
C8_SkipsEqualRegion ==
    (alg = "quick_inplace_repeat" /\ last.before # <<>>) =>
        \A k \in 1..Len(last.calls) :
            RangeOf(last.calls[k]) \cap (last.left..(last.right - 1)) = {}

PartitionedAround(s, left, right, l, r, pivot) ==
    /\ left <= l /\ l < r /\ r <= right + 1
    /\ \A i \in left..(l - 1) : Lt(At(s, i), pivot)
    /\ \A i \in l..(r - 1) : Eq(At(s, i), pivot)
    /\ \A i \in r..right : Gt(At(s, i), pivot)
AllEqual(s, left, right) == \A i \in left..right : Eq(At(s, i), At(s, left))

\* C9: partition_repeat returns (l, r), left <= l < r <= right+1, with the
\* elements below the pivot at left..l-1, those equal to it at l..r-1 and
\* those above it at r..right; the range keeps its elements and the rest of
\* the list is unchanged.  A range of equal elements gives (left, right+1)
\* and is unchanged: (0, 5) for [2,2,2,2,2].
C9_PartitionRepeat ==
    (alg = "partition_repeat" /\ pc = "done") =>
        /\ PartitionedAround(sequence, args[1], args[2], ret[1], ret[2],
                             At(input, last.pivot_ind))
        /\ IsPerm(Slice(input, args[1], args[2]), Slice(sequence, args[1], args[2]))
        /\ SameOutside(input, sequence, args[1], args[2])
        /\ ~oob
        /\ AllEqual(input, args[1], args[2]) =>
              ret = <<args[1], args[2] + 1>> /\ sequence = input
        /\ LET r == partition_repeat(Mem(Tagged(<<2, 2, 2, 2, 2>>)), 0, 4,
                                     last.pivot_ind)
           IN  r.ret = <<0, 5>> /\ r.m.s = Tagged(<<2, 2, 2, 2, 2>>)

C9_Witness ==
    /\ alg = "partition_repeat" /\ pc = "done"
    /\ args[1] > 0
    /\ args[1] < ret[1] /\ ret[1] < ret[2] /\ ret[2] <= args[2]
    /\ sequence # input

\* The first n elements of s are in heap order.
IsMaxHeap(s, n) ==
    \A i \in 0..(n - 1) :
        /\ 2 * i + 1 <= n - 1 => Le(At(s, 2 * i + 1), At(s, i))
        /\ 2 * i + 2 <= n - 1 => Le(At(s, 2 * i + 2), At(s, i))

\* C10: after heapify, and after each iteration of heap_sort's extraction
\* loop, the unsorted prefix is a max-heap, the suffix behind it is in
\* non-decreasing order, and no element of the suffix is less than an
\* element of the prefix.  (The prefix is 0..end here: end is the loop
\* variable of the next iteration.)
C10_HeapInvariant ==
    (alg = "heap_sort" /\ pc \in {"running", "done"}) =>
        /\ IsMaxHeap(sequence, end + 1)
        /\ Sorted(SubSeq(sequence, end + 2, Len(sequence)))
        /\ \A i \in 0..end : \A j \in (end + 1)..(Len(sequence) - 1) :
              Le(At(sequence, i), At(sequence, j))

C10_Witness ==
    /\ alg = "heap_sort" /\ pc = "running"
    /\ Len(input) = MaxLen
    /\ end = 2
    /\ ~IsMaxHeap(input, Len(input))
    /\ Gt(At(sequence, 0), At(sequence, 2))

=============================================================================
